---- MODULE Spec2Model ----
(***************************************************************************)
(* EchoVerse gateway (server.js): three Express handlers that forward a    *)
(* request to an IBM provider SDK and normalise the answer.                *)
(*                                                                         *)
(*   POST /api/generate  -> wx.generateText        (server.js 41-75)       *)
(*   POST /api/tts       -> tts.synthesize,                                *)
(*                          tts.repairWavHeaderStream (server.js 83-99)    *)
(*   POST /api/stt       -> multer upload, stt.recognize, fs.unlink        *)
(*                                                  (server.js 107-133)    *)
(*                                                                         *)
(* A handler is an async function: it runs to completion between two       *)
(* awaits, so every action below is one such run (from the entry or from a *)
(* settled await up to the next await or to the end of the handler).       *)
(*                                                                         *)
(* JavaScript values are tagged sequences of strings: <<"undefined">>,     *)
(* <<"null">>, <<"string", s>>, <<"number", s>>.  Objects are records      *)
(* whose field t says whether the object itself is there.                  *)
(***************************************************************************)
EXTENDS Naturals, Sequences, FiniteSets, TLC

\* ------------------------------------------------------------------ bounds
NumReqs == 2      \* concurrent request slots of the handler specification
MaxSegs == 2      \* recognised segments in one recognition response
MaxAlts == 2      \* ranked alternatives of one segment
MaxStrLen == 2    \* characters of one alternative's transcript

\* --------------------------------------------------------- JavaScript values
Undef == <<"undefined">>
Null == <<"null">>
Str(s) == <<"string", s>>
Num(s) == <<"number", s>>

IsNullish(v) == v[1] \in {"undefined", "null"}
IsString(v) == v[1] = "string"

\* a ?? b
Coalesce(a, b) == IF IsNullish(a) THEN b ELSE a

\* ----------------------------------------------- /api/generate: extraction
\* A provider answer `result`: [t, result, generated_text]; its nested
\* `result.result`: [t, generated_text, output_text].  t is "undefined",
\* "null" or "object"; the fields of a value that is no object are fillers.
NoNested == [t |-> "undefined", generated_text |-> Undef, output_text |-> Undef]
NullNested == [t |-> "null", generated_text |-> Undef, output_text |-> Undef]
Nested(gt, ot) == [t |-> "object", generated_text |-> gt, output_text |-> ot]

UndefResult == [t |-> "undefined", result |-> NoNested, generated_text |-> Undef]
NullResult == [t |-> "null", result |-> NoNested, generated_text |-> Undef]
Result(n, gt) == [t |-> "object", result |-> n, generated_text |-> gt]

\* result?.result?.generated_text
NestedGeneratedText(result) ==
    IF result.t # "object" THEN Undef
    ELSE IF result.result.t # "object" THEN Undef
    ELSE result.result.generated_text

\* result?.generated_text
TopGeneratedText(result) ==
    IF result.t # "object" THEN Undef ELSE result.generated_text

\* result?.result?.output_text
NestedOutputText(result) ==
    IF result.t # "object" THEN Undef
    ELSE IF result.result.t # "object" THEN Undef
    ELSE result.result.output_text

\* JSON text of a primitive value
JsonValue(v) ==
    CASE v[1] = "string" -> "\"" \o v[2] \o "\""
      [] v[1] = "number" -> v[2]
      [] OTHER -> "null"

\* JSON text of the members of an object: the fields in `keys` order, a
\* member whose value is undefined left out.
RECURSIVE JsonMembers(_, _)
JsonMembers(pairs, first) ==
    IF pairs = <<>> THEN ""
    ELSE LET p == Head(pairs) IN
         IF p[2] = "" THEN JsonMembers(Tail(pairs), first)
         ELSE (IF first THEN "" ELSE ",") \o "\"" \o p[1] \o "\":" \o p[2]
              \o JsonMembers(Tail(pairs), FALSE)

JsonOrSkip(v) == IF v = Undef THEN "" ELSE JsonValue(v)

JsonNested(n) ==
    CASE n.t = "undefined" -> ""
      [] n.t = "null" -> "null"
      [] OTHER -> "{" \o JsonMembers(<< <<"generated_text", JsonOrSkip(n.generated_text)>>,
                                        <<"output_text", JsonOrSkip(n.output_text)>> >>, TRUE)
                  \o "}"

\* JSON.stringify(result): undefined for undefined, else the JSON text
Stringify(result) ==
    CASE result.t = "undefined" -> Undef
      [] result.t = "null" -> Str("null")
      [] OTHER -> Str("{" \o JsonMembers(<< <<"result", JsonNested(result.result)>>,
                                            <<"generated_text", JsonOrSkip(result.generated_text)>> >>,
                                         TRUE) \o "}")

\* A plausible slip: `||` in place of `??` (an empty string counts as absent)
extractTextOr(result) ==
    LET Or(a, b) == IF IsNullish(a) \/ a = Str("") THEN b ELSE a
    IN Or(NestedGeneratedText(result),
          Or(TopGeneratedText(result),
             Or(NestedOutputText(result), Stringify(result))))

\* const text = a ?? b ?? c ?? JSON.stringify(result)
extractText(result) ==
    Coalesce(NestedGeneratedText(result),
             Coalesce(TopGeneratedText(result),
                      Coalesce(NestedOutputText(result), Stringify(result))))

\* ------------------------------------------------ /api/stt: transcript join
\* Text is a sequence of characters.  A transcript value is <<"undefined">>
\* or <<"string">> \o text.  An alternative is [t, transcript]; a segment's
\* alternatives are [t, items]; a segment is [t, alternatives]; the
\* recognition answer is [t, results], t saying how far
\* sttResp?.result?.results reaches.
Chars == {"a", " "}
IsSpace(c) == c = " "

TStr(cs) == <<"string">> \o cs
Alt(tv) == [t |-> "object", transcript |-> tv]
NoAlts == [t |-> "undefined", items |-> <<>>]
Alts(items) == [t |-> "array", items |-> items]
Segment(alts) == [t |-> "object", alternatives |-> alts]
NullSegment == [t |-> "null", alternatives |-> NoAlts]
SttResults(segs) == [t |-> "results", results |-> segs]
SttNone(t) == [t |-> t, results |-> <<>>]

\* r.alternatives?.[0]?.transcript || ""
firstTranscript(r) ==
    LET a == r.alternatives
        v == IF a.t # "array" \/ a.items = <<>> THEN Undef
             ELSE IF a.items[1].t # "object" THEN Undef
             ELSE a.items[1].transcript
    IN IF v[1] # "string" THEN <<>> ELSE Tail(v)

\* Array.prototype.join(" ")
RECURSIVE join(_)
join(parts) ==
    IF parts = <<>> THEN <<>>
    ELSE IF Len(parts) = 1 THEN parts[1]
    ELSE parts[1] \o <<" ">> \o join(Tail(parts))

\* String.prototype.trim()
RECURSIVE trimStart(_)
trimStart(s) == IF s # <<>> /\ IsSpace(Head(s)) THEN trimStart(Tail(s)) ELSE s
RECURSIVE trimEnd(_)
trimEnd(s) ==
    IF s # <<>> /\ IsSpace(s[Len(s)]) THEN trimEnd(SubSeq(s, 1, Len(s) - 1)) ELSE s
trim(s) == trimEnd(trimStart(s))

\* results contains a null segment: r.alternatives throws a TypeError
transcriptThrows(sttResp) ==
    /\ sttResp.t = "results"
    /\ \E i \in 1..Len(sttResp.results) : sttResp.results[i].t = "null"

\* A plausible slip: the join without the trim
transcriptUntrimmed(sttResp) ==
    IF sttResp.t # "results" THEN <<>>
    ELSE join([i \in 1..Len(sttResp.results) |-> firstTranscript(sttResp.results[i])])

\* sttResp?.result?.results?.map(...).join(" ").trim() || ""
transcriptOf(sttResp) ==
    IF sttResp.t # "results" THEN <<>>
    ELSE trim(join([i \in 1..Len(sttResp.results) |-> firstTranscript(sttResp.results[i])]))

\* ------------------------------------------------------------ request inputs
Reqs == 1..NumReqs

\* req.body of /api/generate: undefined, or {prompt, task, tone}
NoBody == [t |-> "undefined"]
GenBody(prompt, task, tone) ==
    [t |-> "object", prompt |-> prompt, task |-> task, tone |-> tone]
GenBodies ==
    { NoBody,
      GenBody(Undef, Undef, Undef),
      GenBody(Str(""), Undef, Undef),
      GenBody(Str("The sky is blue."), Str("rewrite"), Str("Formal")) }

\* req.body of /api/tts: undefined, or {text, voice, format}
TtsBody(text, voice, format) ==
    [t |-> "object", text |-> text, voice |-> voice, format |-> format]
BadFormat == "audio/wav\nX"
TtsBodies ==
    { NoBody,
      TtsBody(Undef, Undef, Undef),
      TtsBody(Str("hello"), Undef, Undef),
      TtsBody(Str("hello"), Str("en-GB_KateV3Voice"), Str("audio/wav")),
      TtsBody(Str("hello"), Undef, Str(BadFormat)) }

\* req.file of /api/stt as multer leaves it: undefined, or {path, mimetype}
NoFile == [t |-> "undefined", path |-> 0, mimetype |-> Undef]
File(path, mimetype) == [t |-> "object", path |-> path, mimetype |-> mimetype]
Mimetypes == {Str(""), Str("audio/wav")}

\* process.env.TTS_VOICE: unset, or a voice name
EnvVoices == {Undef, Str("en-GB_JamesV3Voice")}

\* ------------------------------------------------------ provider behaviour
\* What a provider call rejects with: an SDK error carrying the upstream
\* payload in err.response.result, or a transport error without one.
SdkError(payload) == [response_result |-> Str(payload), message |-> Str("Bad Request")]
PlainError(message) == [response_result |-> Undef, message |-> Str(message)]
TypeError == PlainError("TypeError")
UpstreamPayloads == {"upstream: invalid api key sk-123"}
Errors == {SdkError(p) : p \in UpstreamPayloads} \cup {PlainError("ETIMEDOUT")}

\* generation answers
FieldVals(s) == {Undef, Null, Str(""), Str(s), Num("42")}
GenResultsAll ==
    {UndefResult, NullResult}
    \cup { Result(n, gt) :
             n \in {NoNested, NullNested}
                   \cup {Nested(a, b) : a \in FieldVals("N"), b \in FieldVals("O")},
             gt \in FieldVals("T") }
GenResultsSmall ==
    { UndefResult, Result(NoNested, Str("T")), Result(Nested(Undef, Undef), Undef) }

\* synthesis answers: undefined, or {result: stream}; a stream is its bytes
NoSynth == [t |-> "undefined", result |-> <<>>]
Synth(bytes) == [t |-> "object", result |-> bytes]
WavBroken == <<"RIFF", "00000000", "WAVE">>
WavFixed == <<"RIFF", "24000000", "WAVE">>
SynthResults == {NoSynth, Synth(WavBroken)}
\* what tts.repairWavHeaderStream (ibm-watson, not of this repository) may
\* resolve with: the bytes as they came, or with the header rewritten
Buffers == {WavBroken, WavFixed}

\* recognition answers
RECURSIVE Texts(_)
Texts(n) ==
    IF n = 0 THEN {<<>>}
    ELSE Texts(n - 1) \cup {t \o <<c>> : t \in Texts(n - 1), c \in Chars}
TranscriptVals == {Undef} \cup {TStr(t) : t \in Texts(MaxStrLen)}
OtherAlt == Alt(TStr(<<"a", "a", "a", "a">>))
RECURSIVE Others(_)
Others(n) == IF n = 0 THEN <<>> ELSE <<OtherAlt>> \o Others(n - 1)
AltLists ==
    {NoAlts, Alts(<<>>)}
    \cup { Alts(<<Alt(tv)>> \o Others(k)) : tv \in TranscriptVals, k \in 0..(MaxAlts - 1) }
SegmentsAll == {NullSegment} \cup {Segment(a) : a \in AltLists}
RECURSIVE SegLists(_)
SegLists(n) ==
    IF n = 0 THEN {<<>>}
    ELSE SegLists(n - 1)
         \cup {l \o <<g>> : l \in {x \in SegLists(n - 1) : Len(x) = n - 1}, g \in SegmentsAll}
SttResultsAll ==
    {SttNone("undefined"), SttNone("no_result"), SttNone("no_results")}
    \cup {SttResults(l) : l \in SegLists(MaxSegs)}
SttResultsSmall ==
    { SttNone("no_results"),
      SttResults(<<NullSegment>>),
      SttResults(<< Segment(Alts(<<Alt(TStr(<<"a">>))>>)), Segment(NoAlts) >>) }

\* ------------------------------------------------------------------- state
VARIABLES
    pc,         \* where each request's handler stands
    ep,         \* the endpoint each request was posted to
    body,       \* req.body (generate, tts) or req.file (stt)
    calls,      \* the SDK calls each handler made, in order
    settled,    \* what each awaited call resolved or rejected with, in order
    resp,       \* the responses sent on each request's connection, in order
    log,        \* what each handler wrote to console.error
    disk,       \* the files that exist under uploads/
    nextPath,   \* multer's next (never used before) file name
    opened,     \* the path each handler opened with fs.createReadStream
    unlinks,    \* the paths each handler passed to fs.unlink
    unlinking,  \* fs.unlink calls issued and not yet carried out
    env         \* process.env as read at start (dotenv.config()), never written

vars == <<env, pc, ep, body, calls, settled, resp, log, disk, nextPath, opened, unlinks, unlinking>>
fsVars == <<disk, nextPath, opened, unlinks, unlinking>>

Init ==
    /\ env \in [TTS_VOICE : EnvVoices]
    /\ pc = [r \in Reqs |-> "idle"]
    /\ ep = [r \in Reqs |-> "none"]
    /\ body = [r \in Reqs |-> NoBody]
    /\ calls = [r \in Reqs |-> <<>>]
    /\ settled = [r \in Reqs |-> <<>>]
    /\ resp = [r \in Reqs |-> <<>>]
    /\ log = [r \in Reqs |-> <<>>]
    /\ disk = {}
    /\ nextPath = 1
    /\ opened = [r \in Reqs |-> 0]
    /\ unlinks = [r \in Reqs |-> {}]
    /\ unlinking = {}

\* ---------------------------------------------------------------- responses
\* res.status(status).json({key: val}); JSON.stringify leaves out a member
\* whose value is undefined.
JsonResp(status, key, val) ==
    [ status |-> status, ctype |-> "application/json; charset=utf-8",
      keys |-> IF val = Undef THEN {} ELSE {key}, val |-> val ]

\* res.setHeader("Content-Type", format); res.send(audio)
SendResp(format, audio) ==
    [status |-> 200, ctype |-> format, keys |-> {}, val |-> audio]

\* console.error(label, err?.response?.result || err)
Logged(label, err) ==
    [ label |-> label,
      detail |-> IF err.response_result # Undef
                 THEN <<"result", err.response_result[2]>>
                 ELSE <<"error", err.message[2]>> ]

\* A plausible slip: a catch block that only logs
catchSilent(msg, err) == <<>>

\* A plausible slip: a catch block that hands the upstream payload on
catchLeaky(msg, err) ==
    << JsonResp(500, "error",
                IF err.response_result # Undef THEN err.response_result ELSE err.message) >>

\* res.status(500).json({ error: msg })
catchResponses(msg, err) == << JsonResp(500, "error", Str(msg)) >>

\* A plausible slip: run the handler again after a failure
catchPcRetry == "handler"

\* the handler ends after its catch block
catchPc == "done"

\* catch (err) { console.error(label, ...); res.status(500).json({error: msg}) }
Catch(r, label, msg, err) ==
    /\ log' = [log EXCEPT ![r] = Append(@, Logged(label, err))]
    /\ resp' = [resp EXCEPT ![r] = @ \o catchResponses(msg, err)]
    /\ pc' = [pc EXCEPT ![r] = catchPc]

\* a destructuring default: used only when the member is undefined
DefaultTo(v, d) == IF v = Undef THEN d ELSE v

\* A request is posted; express.json has parsed (or not) its body.
Arrive(r, e, b) ==
    /\ pc[r] = "idle"
    /\ pc' = [pc EXCEPT ![r] = "handler"]
    /\ ep' = [ep EXCEPT ![r] = e]
    /\ body' = [body EXCEPT ![r] = b]
    /\ UNCHANGED <<calls, settled, resp, log>>

Settle(r, fn, ok, val) ==
    settled' = [settled EXCEPT ![r] = Append(@, [fn |-> fn, ok |-> ok, val |-> val])]

\* ------------------------------------------------------------ /api/generate
GRANITE_MODEL == "ibm/granite-13b-instruct-v2"
MaxNewTokens == 400

\* `You are EchoVerse's writer. Task: ${task}.\nTone: ${tone}. Keep ...`
systemPrompt(task, tone) ==
    "You are EchoVerse's writer. Task: " \o task[2] \o ".\nTone: " \o tone[2]
    \o ". Keep meaning intact. Output only the transformed text."

generateParams(b) ==
    [ fn |-> "generateText",
      modelId |-> GRANITE_MODEL,
      input |-> b.prompt,
      parameters |-> [ decoding_method |-> "greedy", max_new_tokens |-> MaxNewTokens,
                       stop_sequences |-> <<>>, temperature |-> "0.2" ],
      context |-> [ system_prompt |-> systemPrompt(DefaultTo(b.task, Str("rewrite")),
                                                   DefaultTo(b.tone, Str("Neutral"))) ] ]

ArriveGenerate(r) ==
    /\ \E b \in GenBodies : Arrive(r, "generate", b)
    /\ UNCHANGED <<env, fsVars>>

\* the handler up to `await wx.generateText(generateParams)`; destructuring
\* an undefined req.body throws into the catch block
GenerateStart(r) ==
    /\ pc[r] = "handler" /\ ep[r] = "generate"
    /\ IF body[r].t = "undefined"
       THEN /\ Catch(r, "watsonx error:", "Granite generation failed", TypeError)
            /\ UNCHANGED calls
       ELSE /\ calls' = [calls EXCEPT ![r] = Append(@, generateParams(body[r]))]
            /\ pc' = [pc EXCEPT ![r] = "await_generateText"]
            /\ UNCHANGED <<resp, log>>
    /\ UNCHANGED <<env, ep, body, settled, fsVars>>

\* the call resolves: extract the text, res.json({ text })
GenerateResolve(r, results) ==
    /\ pc[r] = "await_generateText"
    /\ \E result \in results :
          /\ Settle(r, "generateText", TRUE, result)
          /\ resp' = [resp EXCEPT ![r] = Append(@, JsonResp(200, "text", extractText(result)))]
    /\ pc' = [pc EXCEPT ![r] = "done"]
    /\ UNCHANGED <<env, ep, body, calls, log, fsVars>>

\* the call rejects: the catch block
GenerateReject(r) ==
    /\ pc[r] = "await_generateText"
    /\ \E err \in Errors :
          /\ Settle(r, "generateText", FALSE, err)
          /\ Catch(r, "watsonx error:", "Granite generation failed", err)
    /\ UNCHANGED <<env, ep, body, calls, fsVars>>

\* ----------------------------------------------------------------- /api/tts
\* process.env.TTS_VOICE || "en-US_AllisonV3Voice"
DefaultVoice ==
    IF env.TTS_VOICE \in {Undef, Str("")} THEN Str("en-US_AllisonV3Voice") ELSE env.TTS_VOICE
DefaultFormat == "audio/mp3"

\* res.setHeader throws ERR_INVALID_CHAR on a value with a control character
InvalidHeaderValue(v) == v = BadFormat

synthesizeParams(b) ==
    [ fn |-> "synthesize",
      text |-> b.text,
      accept |-> DefaultTo(b.format, Str(DefaultFormat)),
      voice |-> DefaultTo(b.voice, DefaultVoice) ]

\* A plausible slip: send the provider's bytes, skipping the repaired ones
ttsAudioRaw(repaired, raw) == raw

\* res.send(audio): audio is what repairWavHeaderStream resolved with
ttsAudio(repaired, raw) == repaired

ArriveTts(r) ==
    /\ \E b \in TtsBodies : Arrive(r, "tts", b)
    /\ UNCHANGED <<env, fsVars>>

\* the handler up to `await tts.synthesize(...)`
TtsStart(r) ==
    /\ pc[r] = "handler" /\ ep[r] = "tts"
    /\ IF body[r].t = "undefined"
       THEN /\ Catch(r, "TTS error:", "TTS failed", TypeError)
            /\ UNCHANGED calls
       ELSE /\ calls' = [calls EXCEPT ![r] = Append(@, synthesizeParams(body[r]))]
            /\ pc' = [pc EXCEPT ![r] = "await_synthesize"]
            /\ UNCHANGED <<resp, log>>
    /\ UNCHANGED <<env, ep, body, settled, fsVars>>

\* synthesize resolves: up to `await tts.repairWavHeaderStream(synth.result)`;
\* reading .result of an undefined synth throws
TtsSynthResolve(r) ==
    /\ pc[r] = "await_synthesize"
    /\ \E synth \in SynthResults :
          /\ Settle(r, "synthesize", TRUE, synth)
          /\ IF synth.t = "undefined"
             THEN /\ Catch(r, "TTS error:", "TTS failed", TypeError)
                  /\ UNCHANGED calls
             ELSE /\ calls' = [calls EXCEPT ![r] =
                                 Append(@, [fn |-> "repairWavHeaderStream", arg |-> synth.result])]
                  /\ pc' = [pc EXCEPT ![r] = "await_repairWavHeaderStream"]
                  /\ UNCHANGED <<resp, log>>
    /\ UNCHANGED <<env, ep, body, fsVars>>

TtsSynthReject(r) ==
    /\ pc[r] = "await_synthesize"
    /\ \E err \in Errors :
          /\ Settle(r, "synthesize", FALSE, err)
          /\ Catch(r, "TTS error:", "TTS failed", err)
    /\ UNCHANGED <<env, ep, body, calls, fsVars>>

\* the repair resolves: res.setHeader("Content-Type", format); res.send(audio)
TtsRepairResolve(r) ==
    /\ pc[r] = "await_repairWavHeaderStream"
    /\ \E audio \in Buffers :
          LET format == DefaultTo(body[r].format, Str(DefaultFormat))
              raw == settled[r][1].val.result
          IN /\ Settle(r, "repairWavHeaderStream", TRUE, audio)
             /\ IF InvalidHeaderValue(format[2])
                THEN Catch(r, "TTS error:", "TTS failed", PlainError("ERR_INVALID_CHAR"))
                ELSE /\ resp' = [resp EXCEPT ![r] =
                                   Append(@, SendResp(format[2], ttsAudio(audio, raw)))]
                     /\ pc' = [pc EXCEPT ![r] = "done"]
                     /\ UNCHANGED log
    /\ UNCHANGED <<env, ep, body, calls, fsVars>>

\* the provider's stream fails while it is read
TtsRepairReject(r) ==
    /\ pc[r] = "await_repairWavHeaderStream"
    /\ \E err \in Errors :
          /\ Settle(r, "repairWavHeaderStream", FALSE, err)
          /\ Catch(r, "TTS error:", "TTS failed", err)
    /\ UNCHANGED <<env, ep, body, calls, fsVars>>

\* ----------------------------------------------------------------- /api/stt
RecognitionModel == "en-US_BroadbandModel"

\* upload.single("audio") (multer, dest "uploads/"): the part named audio is
\* written to a file with a fresh random name and described in req.file; a
\* request without that part leaves req.file undefined.
ArriveStt(r) ==
    /\ \/ /\ Arrive(r, "stt", NoFile)
          /\ UNCHANGED <<disk, nextPath>>
       \/ /\ \E m \in Mimetypes : Arrive(r, "stt", File(nextPath, m))
          /\ disk' = disk \cup {nextPath}
          /\ nextPath' = nextPath + 1
    /\ UNCHANGED <<env, opened, unlinks, unlinking>>

\* A plausible slip: one fixed temporary name for every request
audioPathShared(r) == 1

\* const audioPath = req.file.path
audioPath(r) == body[r].path

\* req.file.mimetype || "audio/webm"
contentTypeOf(file) ==
    IF file.mimetype \in {Undef, Null, Str("")} THEN Str("audio/webm") ELSE file.mimetype

\* the handler up to `await stt.recognize(...)`; reading .path of an
\* undefined req.file throws
SttStart(r) ==
    /\ pc[r] = "handler" /\ ep[r] = "stt"
    /\ IF body[r].t = "undefined"
       THEN /\ Catch(r, "STT error:", "STT failed", TypeError)
            /\ UNCHANGED <<calls, opened>>
       ELSE /\ opened' = [opened EXCEPT ![r] = audioPath(r)]
            /\ calls' = [calls EXCEPT ![r] =
                           Append(@, [ fn |-> "recognize", audio |-> audioPath(r),
                                       contentType |-> contentTypeOf(body[r]),
                                       model |-> RecognitionModel ])]
            /\ pc' = [pc EXCEPT ![r] = "await_recognize"]
            /\ UNCHANGED <<resp, log>>
    /\ UNCHANGED <<env, ep, body, settled, disk, nextPath, unlinks, unlinking>>

\* recognize resolves: fs.unlink(audioPath, () => {}) is issued, the
\* transcript is built and sent; a throw while building it goes to the catch
SttResolve(r, results) ==
    /\ pc[r] = "await_recognize"
    /\ \E sttResp \in results :
          /\ Settle(r, "recognize", TRUE, sttResp)
          /\ IF transcriptThrows(sttResp)
             THEN Catch(r, "STT error:", "STT failed", TypeError)
             ELSE /\ resp' = [resp EXCEPT ![r] =
                                Append(@, JsonResp(200, "transcript", TStr(transcriptOf(sttResp))))]
                  /\ pc' = [pc EXCEPT ![r] = "done"]
                  /\ UNCHANGED log
    /\ unlinks' = [unlinks EXCEPT ![r] = @ \cup {audioPath(r)}]
    /\ unlinking' = unlinking \cup {audioPath(r)}
    /\ UNCHANGED <<env, ep, body, calls, disk, nextPath, opened>>

\* recognize rejects: the catch block, which does not unlink
SttReject(r) ==
    /\ pc[r] = "await_recognize"
    /\ \E err \in Errors :
          /\ Settle(r, "recognize", FALSE, err)
          /\ Catch(r, "STT error:", "STT failed", err)
    /\ UNCHANGED <<env, ep, body, calls, fsVars>>

\* the thread pool carries out an unlink: the file is removed, or the unlink
\* fails (EPERM, ...) and the file stays; the callback () => {} ignores the
\* outcome either way
UnlinkDone(p) ==
    /\ p \in unlinking
    /\ unlinking' = unlinking \ {p}
    /\ \E removed \in BOOLEAN : disk' = IF removed THEN disk \ {p} ELSE disk
    /\ UNCHANGED <<env, pc, ep, body, calls, settled, resp, log, nextPath, opened, unlinks>>

\* ---------------------------------------------------------- specifications
\* The three handlers serving NumReqs concurrent requests.
Next ==
    \/ \E r \in Reqs : ArriveGenerate(r)
    \/ \E r \in Reqs : GenerateStart(r)
    \/ \E r \in Reqs : GenerateResolve(r, GenResultsSmall)
    \/ \E r \in Reqs : GenerateReject(r)
    \/ \E r \in Reqs : ArriveTts(r)
    \/ \E r \in Reqs : TtsStart(r)
    \/ \E r \in Reqs : TtsSynthResolve(r)
    \/ \E r \in Reqs : TtsSynthReject(r)
    \/ \E r \in Reqs : TtsRepairResolve(r)
    \/ \E r \in Reqs : TtsRepairReject(r)
    \/ \E r \in Reqs : ArriveStt(r)
    \/ \E r \in Reqs : SttStart(r)
    \/ \E r \in Reqs : SttResolve(r, SttResultsSmall)
    \/ \E r \in Reqs : SttReject(r)
    \/ \E p \in unlinking : UnlinkDone(p)

Spec == Init /\ [][Next]_vars

\* One generation request, the provider answering with every shape.
NextGen ==
    \/ ArriveGenerate(1)
    \/ GenerateStart(1)
    \/ GenerateResolve(1, GenResultsAll)
    \/ GenerateReject(1)

SpecGen == Init /\ [][NextGen]_vars

\* One transcription request, the provider answering with every segment list.
NextStt ==
    \/ ArriveStt(1)
    \/ SttStart(1)
    \/ SttResolve(1, SttResultsAll)
    \/ SttReject(1)
    \/ \E p \in unlinking : UnlinkDone(p)

SpecStt == Init /\ [][NextStt]_vars

\* ------------------------------------------------------------------ claims
ProviderFns == {"generateText", "synthesize", "recognize"}
ProviderCalls(r) == Cardinality({i \in 1..Len(calls[r]) : calls[r][i].fn \in ProviderFns})
ProviderSettled(r) == Cardinality({i \in 1..Len(settled[r]) : settled[r][i].fn \in ProviderFns})
HasFile(r) == ep[r] = "stt" /\ body[r].t = "object"
FixedMessage(e) ==
    CASE e = "generate" -> "Granite generation failed"
      [] e = "tts" -> "TTS failed"
      [] e = "stt" -> "STT failed"
      [] OTHER -> ""
IsFailure(x, e) ==
    /\ x.status = 500
    /\ x.ctype = "application/json; charset=utf-8"
    /\ x.keys = {"error"}
    /\ x.val = Str(FixedMessage(e))

\* C1: once a /api/stt request that created a temporary file has completed
\* (its response is sent and no unlink of the file is still in flight), the
\* file no longer exists, whether the recognition call succeeded or failed.
C1_TempFileRemoved ==
    \A r \in Reqs :
        (HasFile(r) /\ pc[r] = "done" /\ body[r].path \notin unlinking)
            => body[r].path \notin disk

\* C2: every request ends in exactly one response, a success or a 500 with
\* a JSON {error} body: none is sent before the handler ends, exactly one
\* has been sent when it has ended, and a handler that has not ended can
\* always take its next step once the provider settles.
C2_ExactlyOneResponse ==
    \A r \in Reqs :
        /\ pc[r] # "done" => resp[r] = <<>>
        /\ pc[r] = "done" =>
              /\ Len(resp[r]) = 1
              /\ resp[r][1].status = 200 \/ IsFailure(resp[r][1], ep[r])
        /\ pc[r] \notin {"idle", "done"} =>
              ENABLED ( \/ GenerateStart(r) \/ GenerateResolve(r, GenResultsSmall)
                        \/ GenerateReject(r)
                        \/ TtsStart(r) \/ TtsSynthResolve(r) \/ TtsSynthReject(r)
                        \/ TtsRepairResolve(r) \/ TtsRepairReject(r)
                        \/ SttStart(r) \/ SttResolve(r, SttResultsSmall) \/ SttReject(r) )

C2_Witness ==
    \E r1, r2 \in Reqs :
        /\ pc[r1] = "done" /\ Len(resp[r1]) = 1 /\ resp[r1][1].status = 200
        /\ pc[r2] = "done" /\ Len(resp[r2]) = 1 /\ resp[r2][1].status = 500
        /\ settled[r2] # <<>> /\ ~settled[r2][Len(settled[r2])].ok

\* C3: a provider call that failed is answered with status 500 and exactly
\* the endpoint's fixed message, and no response ever carries the upstream
\* error's payload or message.
C3_ErrorCollapse ==
    \A r \in Reqs :
        /\ \A i \in 1..Len(settled[r]) :
              ~settled[r][i].ok =>
                  /\ Len(resp[r]) = 1
                  /\ IsFailure(resp[r][1], ep[r])
        /\ \A j \in 1..Len(resp[r]) : \A err \in Errors :
              resp[r][j].val \notin ({err.response_result, err.message} \ {Undef})

C3_Witness ==
    \E r \in Reqs : \E p \in UpstreamPayloads :
        /\ ep[r] = "tts"
        /\ Len(settled[r]) = 2 /\ ~settled[r][2].ok
        /\ settled[r][2].val = SdkError(p)
        /\ resp[r] = << JsonResp(500, "error", Str("TTS failed")) >>
        /\ log[r] = << [label |-> "TTS error:", detail |-> <<"result", p>>] >>

\* C4: the text returned for a generation answer is the first present
\* (neither undefined nor null) of result.result.generated_text,
\* result.generated_text, result.result.output_text, in that order, and the
\* serialisation of the whole answer only when none of the three is present.
C4_Present(v) == v # Undef /\ v # Null
C4_FirstPresentField ==
    \A r \in Reqs :
        (ep[r] = "generate" /\ settled[r] # <<>> /\ settled[r][1].ok) =>
            LET result == settled[r][1].val
                a == NestedGeneratedText(result)
                b == TopGeneratedText(result)
                c == NestedOutputText(result)
                text == resp[r][1].val
            IN /\ Len(resp[r]) = 1 /\ resp[r][1].status = 200
               /\ C4_Present(a) => text = a
               /\ (~C4_Present(a) /\ C4_Present(b)) => text = b
               /\ (~C4_Present(a) /\ ~C4_Present(b) /\ C4_Present(c)) => text = c
               /\ (~C4_Present(a) /\ ~C4_Present(b) /\ ~C4_Present(c)) =>
                      text = Stringify(result)
               /\ text = c /\ c # a /\ c # b => ~C4_Present(a) /\ ~C4_Present(b)
               /\ text = b /\ b # a => ~C4_Present(a)

C4_Witness ==
    /\ ep[1] = "generate" /\ pc[1] = "done"
    /\ settled[1] # <<>> /\ settled[1][1].ok
    /\ settled[1][1].val = Result(Nested(Null, Str("O")), Undef)
    /\ resp[1] = << JsonResp(200, "text", Str("O")) >>

\* C5: the transcript returned for a list of segments is the join, in
\* segment order with one space between, of each segment's first
\* alternative's transcript (empty for a segment without alternatives),
\* with the whitespace at both ends removed; it is empty for an empty or
\* absent list.
C5_Top(seg) ==
    IF seg.alternatives.t = "array" /\ Len(seg.alternatives.items) >= 1
       /\ seg.alternatives.items[1].transcript[1] = "string"
    THEN Tail(seg.alternatives.items[1].transcript)
    ELSE <<>>
RECURSIVE C5_JoinUpTo(_, _)
C5_JoinUpTo(segs, n) ==
    IF n = 0 THEN <<>>
    ELSE IF n = 1 THEN C5_Top(segs[1])
    ELSE C5_JoinUpTo(segs, n - 1) \o <<" ">> \o C5_Top(segs[n])
C5_Trimmed(s) ==
    LET inked == {i \in 1..Len(s) : s[i] # " "}
    IN IF inked = {} THEN <<>>
       ELSE SubSeq(s, CHOOSE i \in inked : \A j \in inked : i <= j,
                      CHOOSE i \in inked : \A j \in inked : i >= j)
C5_TranscriptJoin ==
    \A r \in Reqs :
        (ep[r] = "stt" /\ settled[r] # <<>> /\ settled[r][1].ok
         /\ ~transcriptThrows(settled[r][1].val)) =>
            LET sttResp == settled[r][1].val
                expected == IF sttResp.t # "results" THEN <<>>
                            ELSE C5_Trimmed(C5_JoinUpTo(sttResp.results, Len(sttResp.results)))
            IN resp[r] = << JsonResp(200, "transcript", TStr(expected)) >>

C5_Witness ==
    /\ ep[1] = "stt" /\ pc[1] = "done"
    /\ settled[1] # <<>> /\ settled[1][1].ok
    /\ settled[1][1].val =
          SttResults(<< Segment(Alts(<<>>)),
                        Segment(Alts(<<Alt(TStr(<<"a", " ">>)), OtherAlt>>)) >>)
    /\ resp[1] = << JsonResp(200, "transcript", TStr(<<"a">>)) >>

\* C6: a request whose required field is missing (prompt missing or empty
\* for /api/generate, text for /api/tts, the audio file for /api/stt) never
\* causes a provider invocation.
C6_RequiredPresent(r) ==
    CASE ep[r] = "generate" ->
            /\ body[r].t = "object"
            /\ IsString(body[r].prompt) /\ body[r].prompt # Str("")
      [] ep[r] = "tts" -> body[r].t = "object" /\ body[r].text # Undef
      [] ep[r] = "stt" -> body[r].t = "object"
      [] OTHER -> FALSE
C6_ValidatedBeforeCall ==
    \A r \in Reqs : ProviderCalls(r) > 0 => C6_RequiredPresent(r)

\* C7: whenever the generation call returns without error, /api/generate
\* answers with a success response whose payload has a text member that is
\* a string, whatever the shape of the returned value.
C7_TextAlwaysString ==
    \A r \in Reqs :
        (ep[r] = "generate" /\ settled[r] # <<>> /\ settled[r][1].ok) =>
            /\ Len(resp[r]) = 1
            /\ resp[r][1].status = 200
            /\ resp[r][1].keys = {"text"}
            /\ IsString(resp[r][1].val)

\* C8: a successful /api/tts response carries what the WAV-header repair
\* resolved with, the repair was called with the synthesis result's stream
\* after the synthesis call and before any response, and the Content-Type
\* is the request's format ("audio/mp3" when omitted).
C8_Format(r) == IF body[r].format = Undef THEN "audio/mp3" ELSE body[r].format[2]
C8_RepairedBody ==
    \A r \in Reqs :
        ep[r] = "tts" =>
            /\ (resp[r] # <<>> /\ resp[r][1].status = 200) =>
                  /\ Len(calls[r]) = 2 /\ Len(settled[r]) = 2
                  /\ calls[r][1].fn = "synthesize"
                  /\ calls[r][2].fn = "repairWavHeaderStream"
                  /\ settled[r][1].ok /\ settled[r][2].ok
                  /\ calls[r][2].arg = settled[r][1].val.result
                  /\ resp[r][1].val = settled[r][2].val
                  /\ resp[r][1].ctype = C8_Format(r)
            /\ Len(calls[r]) = 2 => (settled[r] # <<>> /\ settled[r][1].ok)
            /\ pc[r] = "await_repairWavHeaderStream" => resp[r] = <<>>

C8_Witness ==
    \E r \in Reqs :
        /\ ep[r] = "tts" /\ pc[r] = "done"
        /\ body[r].t = "object" /\ body[r].format = Undef
        /\ Len(settled[r]) = 2 /\ settled[r][2].ok
        /\ settled[r][1].val = Synth(WavBroken)
        /\ resp[r] = << SendResp("audio/mp3", WavFixed) >>

\* C9: a request calls its provider at most once, and no response is sent
\* while a provider call is outstanding.
C9_SingleCallThenRespond ==
    \A r \in Reqs :
        /\ ProviderCalls(r) <= 1
        /\ resp[r] # <<>> => ProviderSettled(r) = ProviderCalls(r)

C9_Witness ==
    \E r \in Reqs :
        /\ pc[r] = "done" /\ ProviderCalls(r) = 1
        /\ settled[r] # <<>> /\ ~settled[r][1].ok
        /\ Len(resp[r]) = 1

\* C10: concurrent /api/stt requests each read and unlink only the file
\* they created, the files are distinct, and a file is neither removed nor
\* being removed while its request has not finished its provider call.
C10_OwnFileOnly ==
    \A r \in Reqs :
        /\ opened[r] # 0 => (HasFile(r) /\ opened[r] = body[r].path)
        /\ unlinks[r] # {} => (HasFile(r) /\ unlinks[r] = {body[r].path})
        /\ \A q \in Reqs : (q # r /\ HasFile(q) /\ HasFile(r)) => body[q].path # body[r].path
        /\ (HasFile(r) /\ pc[r] \in {"handler", "await_recognize"}) =>
              (body[r].path \in disk /\ body[r].path \notin unlinking)

C10_Witness ==
    \E r, q \in Reqs :
        /\ r # q /\ HasFile(r) /\ HasFile(q)
        /\ pc[r] = "done" /\ unlinks[r] = {body[r].path}
        /\ body[r].path \notin disk /\ body[r].path \notin unlinking
        /\ pc[q] = "await_recognize" /\ opened[q] = body[q].path
        /\ body[q].path \in disk

====
